---------------------------- MODULE Spec2Model ----------------------------
(***************************************************************************)
(* State-machine model of the ZsxqCrawler sync engine.                     *)
(*                                                                         *)
(*   Spec      one session of the post crawler (ZSXQInteractiveCrawler) in *)
(*             one of its five crawl modes: crawl_historical,              *)
(*             crawl_incremental, crawl_all_historical,                    *)
(*             crawl_latest_until_complete and the time-range task of      *)
(*             main.py, against a descending-time remote feed.             *)
(*   SpecFile  one session of the file downloader (ZSXQFileDownloader)     *)
(*             running download_files_from_database.                       *)
(*                                                                         *)
(* Timestamps are kept in their wire form <<seconds, milliseconds>> (the   *)
(* "YYYY-MM-DDTHH:MM:SS.mmm+0800" string) and converted to and from a      *)
(* millisecond count the way the code converts them to datetime and back.  *)
(* A cursor (end_time) is <<>> for Python's None and <<w>> for a string w. *)
(***************************************************************************)
EXTENDS Integers, Sequences, FiniteSets, TLC

----------------------------------------------------------------------------
(* Bounds of the model *)

\* items the remote feed holds at most
MaxItems == 3
\* per_page / count of one page request
PerPage == 2
\* largest `pages` argument of the bounded modes
MaxPages == 2
\* 0.1 s sub-waits of one smart_delay
SleepTicks == 2
\* 0.1 s sub-waits of one long sleep
LongSleepTicks == 2
\* pages between two long sleeps (custom_pages_per_batch)
PagesPerBatch == 2
\* streaks of consecutive failing responses the remote produces at most
MaxOutages == 1
\* rows download_files_from_database selects at most
MaxFiles == 2
\* files_per_batch of the downloader
FilesPerBatch == 2
\* long_delay_interval of the downloader
LongDelayInterval == 2

(* Program constants *)

max_retries_per_page == 10
max_consecutive_empty == 3
\* max_retries of get_download_url
max_retries == 10
\* default bounds of smart_delay's delay, in seconds
min_delay == 2
max_delay == 5
timestamp_offset_ms == 1
MsPerSecond == 1000
HourMs == 3600 * MsPerSecond

\* create_time of the newest item a feed can hold, in milliseconds
BaseMs == 3 * HourMs

----------------------------------------------------------------------------
(* Timestamps and cursors *)

None == <<>>

\* datetime.fromisoformat(ts.replace('+0800', '+08:00')) as a millisecond count
ParseTime(w) == w[1] * MsPerSecond + w[2]

\* dt.strftime('%Y-%m-%dT%H:%M:%S.%f')[:-3] + '+0800'
FormatTime(t) == <<t \div MsPerSecond, t % MsPerSecond>>

\* the cursor that lies timestamp_offset_ms before the timestamp w
\* (variant: the timestamp itself, the offset forgotten)
SubOffsetWrong(w) == w
SubOffset(w) == FormatTime(ParseTime(w) - timestamp_offset_ms)

\* the cursor one hour before the timestamp w (the coarse skip)
SubHour(w) == FormatTime(ParseTime(w) - HourMs)

\* order of two cursors: None stands for "now", later than every timestamp
CursorBefore(a, b) ==
    /\ a # None
    /\ b = None \/ ParseTime(a[1]) < ParseTime(b[1])

----------------------------------------------------------------------------
(* The remote feed: items in descending create_time, topic_id = position *)

Item(i, off) == [topic_id |-> i, create_time |-> FormatTime(BaseMs - off)]

\* gaps of 0 ms (equal timestamps) or 1 ms between neighbours
Feeds ==
    UNION { { [i \in 1..n |-> Item(i, off[i])] :
                off \in { f \in [1..n -> 0..n] :
                            /\ n > 0 => f[1] = 0
                            /\ \A i \in 1..(n-1) : f[i+1] - f[i] \in {0, 1} } } :
            n \in 0..MaxItems }

Ids(seq) == { seq[i].topic_id : i \in 1..Len(seq) }

Take(seq, n) == IF Len(seq) <= n THEN seq ELSE SubSeq(seq, 1, n)

OlderOrEqual(cursor, it) ==
    cursor = None \/ ParseTime(it.create_time) <= ParseTime(cursor[1])

\* resp_data.topics of a successful request: the newest `count` items that
\* are not newer than the cursor
RemotePage(fd, cursor, count) ==
    Take(SelectSeq(fd, LAMBDA it : OlderOrEqual(cursor, it)), count)


----------------------------------------------------------------------------
(* State of one crawler session *)

VARIABLES
    mode,                    \* which crawl mode the session runs
    pages,                   \* the `pages` argument of the bounded modes
    feed,                    \* the remote feed (unchanged during the session)
    win,                     \* [start, end] of the time-range task, in ms
    stop_req,                \* task_stop_flags[task_id], set by stop_task
    stop_flag,               \* crawler.stop_flag
    db,                      \* topic ids present in the topics table
    pc,                      \* position of the session in its mode
    net,                     \* the request that is outstanding, or "idle"
    end_time,                \* the cursor (end_time / end_time_param)
    start_end_time,          \* crawl_all_historical's resume cursor
    current_page,
    completed_pages,
    retry_count,
    page_success,            \* page_success / page_processed
    consecutive_empty_pages,
    total_stats,
    topics,                  \* resp_data.topics of the last successful fetch
    batch,                   \* the topics handed to store_batch_data
    idx,                     \* position of store_batch_data in batch
    page_stats,              \* stats of the running store_batch_data call
    existing_count,
    new_topics_count,
    last_time_dt_in_page,    \* time-range task: oldest parsed time of a page
    page_count,              \* crawler.page_count modulo the batch size
    sleep_left,              \* sub-waits left of the sleep in progress
    all_new_topics,          \* ids of the list crawl_latest_until_complete collects
    result,                  \* what the mode hands to its caller
    done_reason,             \* which return/break ended the mode
    last_outcome,            \* what the last fetch_topics_safe call returned
    outages,                 \* failure streaks of the remote so far
    attempts,                \* requests issued for the current page
    req_cursor,              \* end_time parameter of the last request issued
    page_cursor,             \* <<c>>: cursor c of the last request that returned items
    imported,                \* ids passed to import_topic_data for this page
    uncommitted,             \* ids written since the last db.conn.commit()
    commits,                 \* commit() calls since the page began to be stored
    fetch_calls,             \* fetch_topics_safe calls made by crawl_historical
    run,                     \* 1, or 2 in a replay of crawl_historical
    db_first,                \* db at the end of the first run
    task_status,             \* current_tasks[task_id]["status"]
    runner_returned,         \* the background runner of the task has returned
    files_to_download,       \* file ids download_files_from_database selected
    null_size,               \* file ids whose size column is NULL
    local,                   \* file ids with a local copy of matching size
    file_i,                  \* i, the position of the loop over files_to_download
    attempt,                 \* loop variable of get_download_url
    stats,                   \* stats of download_files_from_database
    download_count,          \* downloader.download_count
    current_batch_count,     \* downloader.current_batch_count
    download_status,         \* download_status column of the files table
    file_db,                 \* file ids present in the files table
    file_db0,                \* the files table as the session found it
    current_index,           \* collect_files_by_time: index of the next page
    db_latest_time           \* collect_files_by_time: MAX(create_time) at entry

cfg == <<mode, pages, feed, win>>

vars == <<mode, pages, feed, win, stop_req, stop_flag, db, pc, net, end_time,
          start_end_time, current_page, completed_pages, retry_count,
          page_success, consecutive_empty_pages, total_stats, topics, batch,
          idx, page_stats, existing_count, new_topics_count,
          last_time_dt_in_page, page_count, sleep_left, all_new_topics,
          result, done_reason, last_outcome, outages, attempts, req_cursor,
          page_cursor, imported, uncommitted, commits, fetch_calls, run,
          db_first, task_status, runner_returned, files_to_download,
          null_size, local,
          file_i, attempt, stats, download_count, current_batch_count,
          download_status, file_db, file_db0, current_index, db_latest_time>>

\* the variables of the file downloader that a crawler session leaves alone
fvars == <<files_to_download, null_size, local, file_i, attempt, stats, download_count,
           current_batch_count, download_status, file_db, file_db0,
           current_index, db_latest_time>>

\* the variables of the crawler that a downloader session leaves alone
cvars == <<pages, feed, win, db, end_time, start_end_time, current_page,
           completed_pages, retry_count, page_success,
           consecutive_empty_pages, total_stats, topics, batch, idx,
           page_stats, existing_count, new_topics_count,
           last_time_dt_in_page, page_count, all_new_topics, req_cursor,
           page_cursor, imported, uncommitted, commits, fetch_calls, run,
           db_first,
           task_status, runner_returned>>

Modes == {"historical", "incremental", "all", "latest", "range"}
Bounded == {"historical", "incremental"}

\* outcomes of one request as fetch_topics_safe sees them
Failing == {"ratelimit", "auth"}
Outcomes == {"ok", "expired"} \cup Failing

\* windows of the time-range task: one that holds the newest timestamp only,
\* so that a page can straddle its start, and one that ends before it
Windows == { [start |-> BaseMs, end |-> BaseMs],
             [start |-> BaseMs - 2, end |-> BaseMs - 1] }

Stats0 == [new_topics |-> 0, updated_topics |-> 0, errors |-> 0, pages |-> 0]
PageStats0 == [new_topics |-> 0, updated_topics |-> 0, errors |-> 0]
FileStats0 == [total_files |-> 0, downloaded |-> 0, skipped |-> 0, failed |-> 0]

\* the session as one record: handlers map a record to the next record
Cur ==
    [stop_flag |-> stop_flag, db |-> db, pc |-> pc, net |-> net,
     end_time |-> end_time, start_end_time |-> start_end_time,
     current_page |-> current_page, completed_pages |-> completed_pages,
     retry_count |-> retry_count, page_success |-> page_success,
     consecutive_empty_pages |-> consecutive_empty_pages,
     total_stats |-> total_stats, topics |-> topics, batch |-> batch,
     idx |-> idx, page_stats |-> page_stats,
     existing_count |-> existing_count, new_topics_count |-> new_topics_count,
     last_time_dt_in_page |-> last_time_dt_in_page, page_count |-> page_count,
     sleep_left |-> sleep_left, all_new_topics |-> all_new_topics,
     result |-> result, done_reason |-> done_reason,
     last_outcome |-> last_outcome, outages |-> outages,
     attempts |-> attempts, req_cursor |-> req_cursor,
     page_cursor |-> page_cursor, imported |-> imported,
     uncommitted |-> uncommitted, commits |-> commits,
     fetch_calls |-> fetch_calls]

Commit(n) ==
    /\ stop_flag' = n.stop_flag
    /\ db' = n.db
    /\ pc' = n.pc
    /\ net' = n.net
    /\ end_time' = n.end_time
    /\ start_end_time' = n.start_end_time
    /\ current_page' = n.current_page
    /\ completed_pages' = n.completed_pages
    /\ retry_count' = n.retry_count
    /\ page_success' = n.page_success
    /\ consecutive_empty_pages' = n.consecutive_empty_pages
    /\ total_stats' = n.total_stats
    /\ topics' = n.topics
    /\ batch' = n.batch
    /\ idx' = n.idx
    /\ page_stats' = n.page_stats
    /\ existing_count' = n.existing_count
    /\ new_topics_count' = n.new_topics_count
    /\ last_time_dt_in_page' = n.last_time_dt_in_page
    /\ page_count' = n.page_count
    /\ sleep_left' = n.sleep_left
    /\ all_new_topics' = n.all_new_topics
    /\ result' = n.result
    /\ done_reason' = n.done_reason
    /\ last_outcome' = n.last_outcome
    /\ outages' = n.outages
    /\ attempts' = n.attempts
    /\ req_cursor' = n.req_cursor
    /\ page_cursor' = n.page_cursor
    /\ imported' = n.imported
    /\ uncommitted' = n.uncommitted
    /\ commits' = n.commits
    /\ fetch_calls' = n.fetch_calls

Init ==
    /\ feed \in Feeds
    /\ db \in SUBSET Ids(feed)
    /\ mode \in Modes
    /\ pages \in IF mode \in Bounded THEN 1..MaxPages ELSE {0}
    /\ win \in IF mode = "range" THEN Windows
                                 ELSE {[start |-> BaseMs, end |-> BaseMs]}
    /\ stop_req = FALSE
    /\ stop_flag = FALSE
    /\ pc = "start"
    /\ net = "idle"
    /\ end_time = None
    /\ start_end_time = None
    /\ current_page = 0
    /\ completed_pages = 0
    /\ retry_count = 0
    /\ page_success = FALSE
    /\ consecutive_empty_pages = 0
    /\ total_stats = Stats0
    /\ topics = <<>>
    /\ batch = <<>>
    /\ idx = 0
    /\ page_stats = PageStats0
    /\ existing_count = 0
    /\ new_topics_count = 0
    /\ last_time_dt_in_page = None
    /\ page_count = 0
    /\ sleep_left = 0
    /\ all_new_topics = <<>>
    /\ result = "running"
    /\ done_reason = "none"
    /\ last_outcome = "none"
    /\ outages = 0
    /\ attempts = 0
    /\ req_cursor = None
    /\ page_cursor = None
    /\ imported = {}
    /\ uncommitted = {}
    /\ commits = 0
    /\ fetch_calls = 0
    /\ run = 1
    /\ db_first = {}
    /\ task_status = "running"
    /\ runner_returned = FALSE
    /\ files_to_download = <<>>
    /\ null_size = {}
    /\ local = {}
    /\ file_i = 0
    /\ attempt = 0
    /\ stats = FileStats0
    /\ download_count = 0
    /\ current_batch_count = 0
    /\ download_status = <<>>
    /\ file_db = {}
    /\ file_db0 = {}
    /\ current_index = None
    /\ db_latest_time = None


----------------------------------------------------------------------------
(* Shared pieces of the crawler *)

\* ZSXQInteractiveCrawler.is_stopped: the value it returns ...
is_stopped(s) == s.stop_flag \/ stop_req

\* ... and its effect: the local flag is synchronised with the external one
\* (variant: the local flag is left as it is)
LatchNot(s) == s
Latch(s) == [s EXCEPT !.stop_flag = is_stopped(s)]

\* a return (or a break that leaves the mode) handing res to the caller
Return(s, res, why) ==
    [s EXCEPT !.pc = "done", !.result = res, !.done_reason = why]

\* what the caller of the mode receives: `return total_stats`, the expired
\* dict of fetch_topics_safe, or nothing (still running, or an exception)
ReturnValue ==
    CASE result = "stats" -> total_stats
      [] result = "expired" -> [expired |-> TRUE]
      [] OTHER -> None

OldestOf(page) == page[Len(page)].create_time

\* "prepare the next page's timestamp": oldest item of the page minus the offset
\* (variant: the offset taken from the newest item of the page)
NextCursorNewest(page) == <<SubOffset(page[1].create_time)>>
NextCursor(page) == <<SubOffset(OldestOf(page))>>

\* "adjust the timestamp for the retry": only when a cursor is set
\* (variant: the retry keeps the cursor of the failed attempt)
RetryCursorKeep(cursor) == cursor
RetryCursor(cursor) ==
    IF cursor # None THEN <<SubOffset(cursor[1])>> ELSE cursor

\* the coarse skip after retry exhaustion: only when a cursor is set
SkipCursor(cursor) ==
    IF cursor # None THEN <<SubHour(cursor[1])>> ELSE cursor

\* db.get_timestamp_range_info()['oldest_timestamp']: the feed is descending,
\* so the stored item of the largest position carries the oldest create_time
OldestStored(d) ==
    LET i == CHOOSE k \in d : \A j \in d : j <= k
    IN  feed[i].create_time

\* number of topics of the page whose topic_id is not in the topics table
CountNew(page, d) == Cardinality(Ids(page) \ d)

\* (variant: the page's counts overwrite the totals)
AddStatsOver(total, ps) ==
    [total EXCEPT !.new_topics = ps.new_topics,
                  !.updated_topics = ps.updated_topics,
                  !.errors = ps.errors]
AddStats(total, ps) ==
    [total EXCEPT !.new_topics = @ + ps.new_topics,
                  !.updated_topics = @ + ps.updated_topics,
                  !.errors = @ + ps.errors]

\* check_page_long_delay: count the page, long sleep every PagesPerBatch pages
check_page_long_delay(s) ==
    LET n == (s.page_count + 1) % PagesPerBatch
    IN  IF n = 0
        THEN [s EXCEPT !.page_count = 0, !.pc = "longsleep",
                       !.sleep_left = LongSleepTicks]
        ELSE [s EXCEPT !.page_count = n, !.pc = "outer"]

\* one iteration of _interruptible_sleep's loop; after is where the caller
\* continues when the sleep returns
interruptible_sleep(s, after) ==
    IF is_stopped(s)
    THEN [Latch(s) EXCEPT !.sleep_left = 0, !.pc = after]
    ELSE IF s.sleep_left > 1
         THEN [s EXCEPT !.sleep_left = @ - 1]
         ELSE [s EXCEPT !.sleep_left = 0, !.pc = after]

\* the end_time argument of the fetch_topics_safe call of each mode
CursorArg(s) ==
    CASE mode = "historical" -> IF s.current_page = 1 THEN None ELSE s.end_time
      [] mode = "all" -> IF s.current_page = 1 /\ s.start_end_time = None
                         THEN None ELSE s.end_time
      [] mode = "latest" -> IF s.current_page = 1 THEN None ELSE s.end_time
      [] OTHER -> s.end_time

----------------------------------------------------------------------------
(* Mode entry: the code of each mode before its page loop *)

Historical_Start(s) == [s EXCEPT !.pc = "outer"]

Incremental_Start(s) ==
    IF s.db = {}
    THEN Return([s EXCEPT !.total_stats.errors = 1], "stats", "nodata")
    ELSE [s EXCEPT !.pc = "outer",
                   !.end_time = <<SubOffset(OldestStored(s.db))>>]

\* (variant: the mode resumes at the newest stored topic)
All_StartNewest(s) ==
    LET n == CHOOSE k \in s.db : \A j \in s.db : k <= j
        c == IF s.db # {} THEN <<SubOffset(feed[n].create_time)>> ELSE None
    IN  [s EXCEPT !.pc = "outer", !.start_end_time = c, !.end_time = c]
All_Start(s) ==
    LET c == IF s.db # {} THEN <<SubOffset(OldestStored(s.db))>> ELSE None
    IN  [s EXCEPT !.pc = "outer", !.start_end_time = c, !.end_time = c]

Latest_Start(s) == [s EXCEPT !.pc = "outer"]

Range_Start(s) == [s EXCEPT !.pc = "outer"]

----------------------------------------------------------------------------
(* Top of the page loop: `while completed_pages < pages` / `while True` *)

NewPage(s) ==
    [s EXCEPT !.pc = "retry", !.retry_count = 0, !.attempts = 0]

Historical_Outer(s) ==
    IF ~(s.completed_pages < pages) THEN Return(s, "stats", "target")
    ELSE IF is_stopped(s) THEN Return(Latch(s), "stats", "stopped")
    ELSE [NewPage(s) EXCEPT !.current_page = s.completed_pages + 1]

Incremental_Outer(s) ==
    IF ~(s.completed_pages < pages) THEN Return(s, "stats", "target")
    ELSE [NewPage(s) EXCEPT !.current_page = s.completed_pages + 1]

All_Outer(s) ==
    IF is_stopped(s) THEN Return(Latch(s), "stats", "stopped")
    ELSE [NewPage(s) EXCEPT !.current_page = @ + 1, !.page_success = FALSE]

Latest_Outer(s) ==
    IF is_stopped(s) THEN Return(Latch(s), "stats", "stopped")
    ELSE [NewPage(s) EXCEPT !.current_page = @ + 1, !.page_success = FALSE]

\* is_task_stopped(task_id) reads the task flag and does not touch the crawler
Range_Outer(s) ==
    IF stop_req THEN Return(s, "stats", "stopped")
    ELSE [NewPage(s) EXCEPT !.page_success = FALSE,
                            !.last_time_dt_in_page = None]

----------------------------------------------------------------------------
(* After the retry loop ended with retry_count = max_retries_per_page *)

\* (variant: the mode returns when a page used up its retries)
Historical_ExhaustedStop(s) == Return(s, "stats", "exhausted")
Historical_Exhausted(s) ==
    [s EXCEPT !.end_time = SkipCursor(@), !.completed_pages = @ + 1,
              !.pc = "outer"]

Incremental_Exhausted(s) ==
    IF is_stopped(s) THEN Return(Latch(s), "stats", "stopped")
    ELSE [s EXCEPT !.end_time = SkipCursor(@), !.completed_pages = @ + 1,
                   !.pc = "outer"]

\* the hour skip is done, then `completed_pages += 1` reads a local variable
\* that crawl_all_historical never assigned: UnboundLocalError
All_Exhausted(s) ==
    Return([s EXCEPT !.end_time = SkipCursor(@)], "raised", "exhausted")

Latest_Exhausted(s) ==
    IF is_stopped(s) THEN Return(Latch(s), "stats", "stopped")
    ELSE Return(s, "stats", "exhausted")

Range_Exhausted(s) == Return(s, "stats", "exhausted")


----------------------------------------------------------------------------
(* Top of the retry loop: `while retry_count < max_retries_per_page` *)

\* entering fetch_topics_safe: smart_delay starts its interruptible sleep
\* fetch_topics_safe's is_historical argument as each mode passes it
IsHistoricalArg(s) ==
    CASE mode = "latest" -> s.current_page # 1
      [] mode = "range" -> s.end_time # None
      [] OTHER -> TRUE

\* smart_delay: the whole seconds random.uniform can draw the delay from,
\* with the default intervals
SmartDelaySeconds(is_historical) ==
    IF is_historical THEN (min_delay + 1)..(max_delay + 2)
    ELSE min_delay..max_delay

\* fetch_comments_safe: the wait after the failed attempt number retry + 1
wait_time(retry) == IF retry < 3 THEN 2 ELSE IF retry < 6 THEN 5 ELSE 10

\* the mode calls fetch_topics_safe
EnterFetch(s) ==
    [s EXCEPT !.pc = "sleep", !.sleep_left = SleepTicks,
              !.fetch_calls = IF mode = "historical" THEN @ + 1 ELSE @]

\* (variant: the limit tested one retry late)
RetryLimitLate(s) == s.retry_count > max_retries_per_page
RetryLimitReached(s) == s.retry_count >= max_retries_per_page

Historical_Retry(s) ==
    IF RetryLimitReached(s) THEN Historical_Exhausted(s)
    ELSE IF is_stopped(s) THEN Return(Latch(s), "stats", "stopped")
    ELSE EnterFetch(s)

Incremental_Retry(s) ==
    IF RetryLimitReached(s) THEN Incremental_Exhausted(s)
    ELSE EnterFetch(s)

All_Retry(s) ==
    IF RetryLimitReached(s) THEN All_Exhausted(s)
    ELSE IF is_stopped(s) THEN Return(Latch(s), "stats", "stopped")
    ELSE EnterFetch(s)

Latest_Retry(s) ==
    IF RetryLimitReached(s) THEN Latest_Exhausted(s)
    ELSE IF is_stopped(s) THEN Return(Latch(s), "stats", "stopped")
    ELSE EnterFetch(s)

Range_Retry(s) ==
    IF RetryLimitReached(s) THEN Range_Exhausted(s)
    ELSE IF stop_req THEN Return(s, "stats", "stopped")
    ELSE EnterFetch(s)

----------------------------------------------------------------------------
(* fetch_topics_safe returned None: the `else` branch of `if data` *)

\* (variant: the failed attempt is retried without being counted in errors)
CountFailureSilent(s) ==
    [s EXCEPT !.retry_count = @ + 1, !.pc = "retry"]
CountFailure(s) ==
    [s EXCEPT !.retry_count = @ + 1, !.total_stats.errors = @ + 1,
              !.pc = "retry"]

Historical_OnFail(s) ==
    [CountFailure(s) EXCEPT !.end_time = RetryCursor(@)]

All_OnFail(s) ==
    [CountFailure(s) EXCEPT !.end_time = RetryCursor(@)]

Incremental_OnFail(s) ==
    IF is_stopped(s) THEN Return(Latch(CountFailure(s)), "stats", "stopped")
    ELSE [CountFailure(s) EXCEPT !.end_time = RetryCursor(@)]

Latest_OnFail(s) ==
    IF is_stopped(s) THEN Return(Latch(CountFailure(s)), "stats", "stopped")
    ELSE [CountFailure(s) EXCEPT !.end_time = RetryCursor(@)]

\* `continue`: the time-range task retries with the cursor unchanged
Range_OnFail(s) == CountFailure(s)

OnFail(s) ==
    CASE mode = "historical" -> Historical_OnFail(s)
      [] mode = "incremental" -> Incremental_OnFail(s)
      [] mode = "all" -> All_OnFail(s)
      [] mode = "latest" -> Latest_OnFail(s)
      [] mode = "range" -> Range_OnFail(s)

----------------------------------------------------------------------------
(* fetch_topics_safe returned data whose topics list is empty *)

Historical_OnEmpty(s) == Return(s, "stats", "empty")

Incremental_OnEmpty(s) == Return(s, "stats", "empty")

\* (variant: the first empty page already ends the mode)
All_OnEmptyOnce(s) ==
    Return([s EXCEPT !.consecutive_empty_pages = @ + 1], "stats", "complete")
All_OnEmpty(s) ==
    LET n == s.consecutive_empty_pages + 1
        s1 == [s EXCEPT !.consecutive_empty_pages = n]
    IN  IF n >= max_consecutive_empty
        THEN Return(s1, "stats", "complete")
        ELSE check_page_long_delay([s1 EXCEPT !.page_success = TRUE])

\* break with page_success still False, then `if not page_success`
Latest_OnEmpty(s) ==
    IF is_stopped(s) THEN Return(Latch(s), "stats", "stopped")
    ELSE Return(s, "stats", "empty")

\* page_processed = True; break; then the loop ends only if no cursor is set
Range_OnEmpty(s) ==
    IF s.end_time = None
    THEN Return([s EXCEPT !.page_success = TRUE], "stats", "empty")
    ELSE [s EXCEPT !.page_success = TRUE, !.pc = "outer"]

OnEmpty(s) ==
    CASE mode = "historical" -> Historical_OnEmpty(s)
      [] mode = "incremental" -> Incremental_OnEmpty(s)
      [] mode = "all" -> All_OnEmpty(s)
      [] mode = "latest" -> Latest_OnEmpty(s)
      [] mode = "range" -> Range_OnEmpty(s)

----------------------------------------------------------------------------
(* fetch_topics_safe returned {"expired": True, ...} (remote code 14210) *)

ReturnExpired(s) == Return(s, "expired", "expired")

\* crawl_historical has no `expired` test: the dict is truthy and holds no
\* topics, so it takes the empty-page return
Historical_OnExpired(s) == Historical_OnEmpty(s)

Incremental_OnExpired(s) == ReturnExpired(s)

All_OnExpired(s) == ReturnExpired(s)

\* crawl_latest_until_complete has no `expired` test either
Latest_OnExpired(s) == Latest_OnEmpty(s)

\* update_task(task_id, "failed", "会员已过期", data); return
Range_OnExpired(s) == ReturnExpired(s)

OnExpired(s) ==
    CASE mode = "historical" -> Historical_OnExpired(s)
      [] mode = "incremental" -> Incremental_OnExpired(s)
      [] mode = "all" -> All_OnExpired(s)
      [] mode = "latest" -> Latest_OnExpired(s)
      [] mode = "range" -> Range_OnExpired(s)


----------------------------------------------------------------------------
(* store_batch_data, one topic per step *)

EnterStore(s, data) ==
    [s EXCEPT !.pc = "store", !.batch = data, !.idx = 1,
              !.page_stats = PageStats0, !.imported = {}, !.commits = 0]

\* the loop body for batch[idx]: existence query, import_topic_data, count
\* (variant: every topic counted as new, the existence query skipped)
ImportTopicBlind(s) ==
    LET id == s.batch[s.idx].topic_id
    IN  [s EXCEPT !.db = @ \cup {id}, !.imported = @ \cup {id},
                  !.uncommitted = @ \cup {id},
                  !.page_stats.new_topics = @ + 1, !.idx = @ + 1]
ImportTopic(s) ==
    LET id == s.batch[s.idx].topic_id
    IN  IF id \in s.db
        THEN [s EXCEPT !.imported = @ \cup {id}, !.uncommitted = @ \cup {id},
                       !.page_stats.updated_topics = @ + 1, !.idx = @ + 1]
        ELSE [s EXCEPT !.db = @ \cup {id}, !.imported = @ \cup {id},
                       !.uncommitted = @ \cup {id},
                       !.page_stats.new_topics = @ + 1, !.idx = @ + 1]

IdSeq(page) == [i \in 1..Len(page) |-> page[i].topic_id]

----------------------------------------------------------------------------
(* The caller's code after store_batch_data returned *)

Historical_PostStore(s) ==
    LET s1 == [s EXCEPT !.total_stats = AddStats(@, s.page_stats),
                        !.total_stats.pages = @ + 1,
                        !.completed_pages = @ + 1,
                        !.end_time = NextCursor(s.topics)]
    IN  IF Len(s.topics) < PerPage THEN Return(s1, "stats", "short")
        ELSE check_page_long_delay(s1)

Incremental_PostStore(s) ==
    check_page_long_delay(
        [s EXCEPT !.total_stats = AddStats(@, s.page_stats),
                  !.total_stats.pages = @ + 1,
                  !.completed_pages = @ + 1,
                  !.end_time = NextCursor(s.topics)])

All_PostStore(s) ==
    LET s1 == [s EXCEPT !.total_stats = AddStats(@, s.page_stats),
                        !.total_stats.pages = @ + 1,
                        !.end_time = NextCursor(s.topics)]
    IN  IF s.new_topics_count = 0 /\ Len(s.topics) < PerPage
        THEN Return(s1, "stats", "bottom")
        ELSE check_page_long_delay([s1 EXCEPT !.page_success = TRUE])

\* the tail both storing branches of crawl_latest_until_complete share
Latest_PageTail(s) ==
    check_page_long_delay(
        [s EXCEPT !.total_stats.pages = @ + 1,
                  !.end_time = NextCursor(s.topics),
                  !.page_success = TRUE])

\* existing_count == 0: the whole page went through store_batch_data
Latest_PostStore(s) ==
    Latest_PageTail(
        [s EXCEPT !.all_new_topics = @ \o IdSeq(s.topics),
                  !.total_stats = AddStats(@, s.page_stats)])

\* (variant: the page loop goes on past the start of the window)
Range_PostStoreOn(s) ==
    check_page_long_delay(
        [s EXCEPT !.total_stats = AddStats(@, s.page_stats),
                  !.total_stats.pages = @ + 1,
                  !.page_success = TRUE,
                  !.end_time = NextCursor(s.topics)])
Range_PostStore(s) ==
    LET s1 == [s EXCEPT !.total_stats = AddStats(@, s.page_stats),
                        !.total_stats.pages = @ + 1,
                        !.page_success = TRUE,
                        !.end_time = NextCursor(s.topics)]
    IN  IF s.last_time_dt_in_page # None
           /\ s.last_time_dt_in_page[1] < win.start
        THEN Return(s1, "stats", "boundary")
        ELSE check_page_long_delay(s1)

PostStore(s) ==
    CASE mode = "historical" -> Historical_PostStore(s)
      [] mode = "incremental" -> Incremental_PostStore(s)
      [] mode = "all" -> All_PostStore(s)
      [] mode = "latest" -> Latest_PostStore(s)
      [] mode = "range" -> Range_PostStore(s)

\* self.db.conn.commit()
db_commit(s) == [s EXCEPT !.uncommitted = {}, !.commits = @ + 1]

\* one step of store_batch_data: the stop test, then the topic. A stop seen
\* before the first topic is the return at entry, a stop seen later is the
\* break that leads to the commit; after the last topic the commit and the
\* return
\* (variant: the break on a stop leaves the function without the commit)
store_batch_data_break(s) ==
    IF is_stopped(s) THEN PostStore(Latch(s))
    ELSE IF s.idx = Len(s.batch) THEN PostStore(db_commit(ImportTopic(s)))
    ELSE ImportTopic(s)
store_batch_data(s) ==
    IF is_stopped(s)
    THEN IF s.idx = 1 THEN PostStore(Latch(s))
         ELSE PostStore(db_commit(Latch(s)))
    ELSE IF s.idx = Len(s.batch) THEN PostStore(db_commit(ImportTopic(s)))
    ELSE ImportTopic(s)

----------------------------------------------------------------------------
(* fetch_topics_safe returned data with at least one topic *)

Historical_OnPage(s) == EnterStore(s, s.topics)

Incremental_OnPage(s) ==
    LET n == CountNew(s.topics, s.db)
        s1 == [s EXCEPT !.new_topics_count = n]
    IN  IF n = 0 /\ Len(s.topics) < PerPage
        THEN Return(s1, "stats", "bottom")
        ELSE EnterStore(s1, s.topics)

All_OnPage(s) ==
    EnterStore([s EXCEPT !.consecutive_empty_pages = 0,
                         !.new_topics_count = CountNew(s.topics, s.db)],
               s.topics)

\* 0 < existing_count < len(topics): only new_topics_list is imported, in
\* a loop of its own without stop tests, and committed
\* (variant: the whole page imported, stored topics included)
Latest_StorePartialAll(s) ==
    LET ids == Ids(s.topics)
        new == SelectSeq(s.topics, LAMBDA it : it.topic_id \notin s.db)
    IN  [s EXCEPT !.db = @ \cup ids, !.imported = ids, !.commits = 1,
                  !.all_new_topics = @ \o IdSeq(new),
                  !.total_stats.new_topics = @ + Len(new)]
Latest_StorePartial(s) ==
    LET new == SelectSeq(s.topics, LAMBDA it : it.topic_id \notin s.db)
    IN  db_commit(
            [s EXCEPT !.db = @ \cup Ids(new), !.imported = Ids(new),
                      !.uncommitted = @ \cup Ids(new),
                      !.all_new_topics = @ \o IdSeq(new),
                      !.total_stats.new_topics = @ + Len(new)])

Latest_OnPage(s) ==
    LET e == Len(s.topics) - CountNew(s.topics, s.db)
        s1 == [s EXCEPT !.existing_count = e]
    IN  IF e = Len(s.topics) THEN Return(s1, "stats", "full_overlap")
        ELSE IF e = 0 THEN EnterStore(s1, s.topics)
        ELSE Latest_PageTail(
                Latest_StorePartial([s1 EXCEPT !.imported = {}, !.commits = 0]))

\* (variant: only the end of the window is tested)
InWindowEnd(it) == ParseTime(it.create_time) <= win.end
InWindow(it) ==
    /\ win.start <= ParseTime(it.create_time)
    /\ ParseTime(it.create_time) <= win.end

Range_OnPage(s) ==
    LET filtered == SelectSeq(s.topics, InWindow)
        s1 == [s EXCEPT !.last_time_dt_in_page =
                            <<ParseTime(OldestOf(s.topics))>>,
                        !.page_stats = PageStats0, !.imported = {},
                        !.commits = 0]
    IN  IF filtered # <<>> THEN EnterStore(s1, filtered)
        ELSE Range_PostStore(s1)

OnPage(s) ==
    CASE mode = "historical" -> Historical_OnPage(s)
      [] mode = "incremental" -> Incremental_OnPage(s)
      [] mode = "all" -> All_OnPage(s)
      [] mode = "latest" -> Latest_OnPage(s)
      [] mode = "range" -> Range_OnPage(s)

----------------------------------------------------------------------------
(* fetch_topics_safe around the request *)

\* the stop test right before session.get, then the request goes out
\* (variant: the request goes out and the mode does not wait for the answer)
fetch_topics_safe_request_nowait(s) ==
    IF is_stopped(s)
    THEN OnFail([Latch(s) EXCEPT !.last_outcome = "stopped"])
    ELSE [s EXCEPT !.pc = "retry", !.net = "topics", !.retry_count = @ + 1,
                   !.attempts = @ + 1, !.req_cursor = CursorArg(s)]
fetch_topics_safe_request(s) ==
    IF is_stopped(s)
    THEN OnFail([Latch(s) EXCEPT !.last_outcome = "stopped"])
    ELSE [s EXCEPT !.pc = "inflight", !.net = "topics",
                   !.attempts = @ + 1, !.req_cursor = CursorArg(s)]

\* the remote starts a new failure streak or continues the one it is in
StreakAllowed(s, o) ==
    \/ s.last_outcome = o
    \/ s.last_outcome \notin Failing /\ s.outages < MaxOutages

\* the response arrived with outcome o: stop test, then status and payload
fetch_topics_safe_response(s, o) ==
    LET s0 == [s EXCEPT !.net = "idle"]
        page == RemotePage(feed, s.req_cursor, PerPage)
    IN  IF is_stopped(s0)
        THEN OnFail([Latch(s0) EXCEPT !.last_outcome = "stopped"])
        ELSE CASE o = "ok" /\ page # <<>> ->
                    OnPage([s0 EXCEPT !.last_outcome = o, !.topics = page,
                                      !.page_cursor = <<s.req_cursor>>])
               [] o = "ok" /\ page = <<>> ->
                    OnEmpty([s0 EXCEPT !.last_outcome = o, !.topics = <<>>])
               [] o = "expired" ->
                    OnExpired([s0 EXCEPT !.last_outcome = o, !.topics = <<>>])
               [] OTHER ->
                    OnFail([s0 EXCEPT !.last_outcome = o,
                                      !.outages = IF s.last_outcome = o
                                                  THEN @ ELSE @ + 1])

----------------------------------------------------------------------------
(* Actions of the crawler session *)

\* stop_task: the operator cancels the task, whose status is "running"
Stop ==
    /\ pc # "done"
    /\ ~stop_req
    /\ stop_req' = TRUE
    /\ task_status' = "cancelled"
    /\ UNCHANGED <<cfg, stop_flag, db, pc, net, end_time, start_end_time,
                   current_page, completed_pages, retry_count, page_success,
                   consecutive_empty_pages, total_stats, topics, batch, idx,
                   page_stats, existing_count, new_topics_count,
                   last_time_dt_in_page, page_count, sleep_left,
                   all_new_topics, result, done_reason, last_outcome, outages,
                   attempts, req_cursor, page_cursor, imported, uncommitted,
                   commits, fetch_calls, run, db_first, runner_returned,
                   fvars>>

Step(n) ==
    /\ Commit(n)
    /\ UNCHANGED <<cfg, stop_req, run, db_first, task_status, runner_returned,
                   fvars>>

ModeStart ==
    /\ pc = "start"
    /\ Step(CASE mode = "historical" -> Historical_Start(Cur)
              [] mode = "incremental" -> Incremental_Start(Cur)
              [] mode = "all" -> All_Start(Cur)
              [] mode = "latest" -> Latest_Start(Cur)
              [] mode = "range" -> Range_Start(Cur))

OuterLoop ==
    /\ pc = "outer"
    /\ Step(CASE mode = "historical" -> Historical_Outer(Cur)
              [] mode = "incremental" -> Incremental_Outer(Cur)
              [] mode = "all" -> All_Outer(Cur)
              [] mode = "latest" -> Latest_Outer(Cur)
              [] mode = "range" -> Range_Outer(Cur))

RetryLoop ==
    /\ pc = "retry"
    /\ Step(CASE mode = "historical" -> Historical_Retry(Cur)
              [] mode = "incremental" -> Incremental_Retry(Cur)
              [] mode = "all" -> All_Retry(Cur)
              [] mode = "latest" -> Latest_Retry(Cur)
              [] mode = "range" -> Range_Retry(Cur))

\* smart_delay's sleep inside fetch_topics_safe
SmartDelay ==
    /\ pc = "sleep"
    /\ Step(interruptible_sleep(Cur, "prereq"))

\* the long sleep of check_page_long_delay
LongSleep ==
    /\ pc = "longsleep"
    /\ Step(interruptible_sleep(Cur, "outer"))

SendRequest ==
    /\ pc = "prereq"
    /\ Step(fetch_topics_safe_request(Cur))

ReceiveResponse ==
    /\ pc = "inflight"
    /\ \E o \in Outcomes :
        /\ o \in Failing => StreakAllowed(Cur, o)
        /\ Step(fetch_topics_safe_response(Cur, o))

StoreTopic ==
    /\ pc = "store"
    /\ Step(store_batch_data(Cur))

\* the caller runs crawl_historical(pages, per_page) again on the same
\* crawler, after a first run that no failing response, no expiry report
\* and no stop request disturbed
Rerun ==
    /\ mode = "historical"
    /\ pc = "done"
    /\ run = 1
    /\ outages = 0
    /\ last_outcome # "expired"
    /\ ~stop_req
    /\ run' = 2
    /\ db_first' = db
    /\ Commit([Cur EXCEPT !.pc = "outer", !.total_stats = Stats0,
                          !.end_time = None, !.completed_pages = 0,
                          !.current_page = 0, !.retry_count = 0,
                          !.result = "running", !.done_reason = "none",
                          !.attempts = 0, !.req_cursor = None,
                          !.page_cursor = None, !.last_outcome = "none",
                          !.fetch_calls = 0])
    /\ UNCHANGED <<cfg, stop_req, task_status, runner_returned, fvars>>

\* the status the background runner of a crawl task leaves when the mode
\* handed it `result`: run_crawl_time_range_task updates without a test;
\* run_crawl_all_task marks an exception failed without a test; otherwise a
\* stopped task is left as it is, an expired result is "failed" and any
\* other "completed"
runner_status ==
    CASE mode = "range" ->
            IF result = "expired" THEN "failed" ELSE "completed"
      [] mode = "all" /\ result = "raised" -> "failed"
      [] stop_req -> task_status
      [] result = "expired" -> "failed"
      [] OTHER -> "completed"

\* the code of the runner after the mode returned; crawl_historical is not
\* run as a task
TaskEnd ==
    /\ pc = "done"
    /\ mode # "historical"
    /\ ~runner_returned
    /\ runner_returned' = TRUE
    /\ task_status' = runner_status
    /\ UNCHANGED <<cfg, stop_req, stop_flag, db, pc, net, end_time,
                   start_end_time, current_page, completed_pages,
                   retry_count, page_success, consecutive_empty_pages,
                   total_stats, topics, batch, idx, page_stats,
                   existing_count, new_topics_count, last_time_dt_in_page,
                   page_count, sleep_left, all_new_topics, result,
                   done_reason, last_outcome, outages, attempts, req_cursor,
                   page_cursor, imported, uncommitted, commits, fetch_calls, run,
           db_first,
                   fvars>>

Next ==
    \/ Stop
    \/ ModeStart
    \/ OuterLoop
    \/ RetryLoop
    \/ SmartDelay
    \/ SendRequest
    \/ ReceiveResponse
    \/ StoreTopic
    \/ LongSleep
    \/ Rerun
    \/ TaskEnd

Spec == Init /\ [][Next]_vars

----------------------------------------------------------------------------
(* store_batch_data on its own, with imports that raise *)

\* crawl_historical has received its first page and enters store_batch_data
InitStore ==
    /\ feed \in Feeds \ {<<>>}
    /\ db \in SUBSET Ids(feed)
    /\ mode = "historical"
    /\ pages \in 1..MaxPages
    /\ win = [start |-> BaseMs, end |-> BaseMs]
    /\ stop_req = FALSE
    /\ stop_flag = FALSE
    /\ pc = "store"
    /\ net = "idle"
    /\ end_time = None
    /\ start_end_time = None
    /\ current_page = 1
    /\ completed_pages = 0
    /\ retry_count = 0
    /\ page_success = FALSE
    /\ consecutive_empty_pages = 0
    /\ total_stats = Stats0
    /\ topics = RemotePage(feed, None, PerPage)
    /\ batch = topics
    /\ idx = 1
    /\ page_stats = PageStats0
    /\ existing_count = 0
    /\ new_topics_count = 0
    /\ last_time_dt_in_page = None
    /\ page_count = 0
    /\ sleep_left = 0
    /\ all_new_topics = <<>>
    /\ result = "running"
    /\ done_reason = "none"
    /\ last_outcome = "ok"
    /\ outages = 0
    /\ attempts = 1
    /\ req_cursor = None
    /\ page_cursor = <<None>>
    /\ imported = {}
    /\ uncommitted = {}
    /\ commits = 0
    /\ fetch_calls = 1
    /\ run = 1
    /\ db_first = {}
    /\ task_status = "running"
    /\ runner_returned = FALSE
    /\ files_to_download = <<>>
    /\ null_size = {}
    /\ local = {}
    /\ file_i = 0
    /\ attempt = 0
    /\ stats = FileStats0
    /\ download_count = 0
    /\ current_batch_count = 0
    /\ download_status = <<>>
    /\ file_db = {}
    /\ file_db0 = {}
    /\ current_index = None
    /\ db_latest_time = None

\* the `except Exception` of the loop body: the existence query or
\* import_topic_data raised for batch[idx], with the topic's row written
\* before the exception or not
ImportTopicError(s, written) ==
    LET id == s.batch[s.idx].topic_id
    IN  [s EXCEPT !.db = IF written THEN @ \cup {id} ELSE @,
                  !.uncommitted = IF written THEN @ \cup {id} ELSE @,
                  !.page_stats.errors = @ + 1, !.idx = @ + 1]

\* one pass of the loop of store_batch_data that ends in the except clause
StoreTopicError ==
    /\ pc = "store"
    /\ ~is_stopped(Cur)
    /\ \E written \in BOOLEAN :
        Step(IF idx = Len(batch)
             THEN PostStore(db_commit(ImportTopicError(Cur, written)))
             ELSE ImportTopicError(Cur, written))

NextStore ==
    \/ Stop
    \/ StoreTopic
    \/ StoreTopicError

SpecStore == InitStore /\ [][NextStore]_vars

----------------------------------------------------------------------------
(* State of one file downloader session (download_files_from_database) *)

\* failures of one request that get_download_url and fetch_file_list answer
\* with `continue` while attempts are left: HTTP 429/500/502/503/504, an
\* exception of the request, a body that is not JSON, and the remote error
\* codes 1059 and 500/502/503/504
RetriedOutcomes ==
    {"http_transient", "exception", "undecodable", "code1059", "code5xx"}

\* failures they answer with `return None`: another HTTP status, another
\* remote error code
FinalOutcomes == {"http_other", "code_other"}

\* outcomes of one download_url request as get_download_url sees them: a
\* link, a success without the download_url field, code 1030, the failures
UrlOutcomes ==
    {"ok", "no_url", "code1030"} \cup RetriedOutcomes \cup FinalOutcomes

\* outcomes of the request for the file itself
FileOutcomes == {"ok", "error"}

\* the downloader as one record, as Cur is for the crawler
FCur ==
    [stop_flag |-> stop_flag, pc |-> pc, net |-> net,
     sleep_left |-> sleep_left, attempts |-> attempts, result |-> result,
     done_reason |-> done_reason, last_outcome |-> last_outcome,
     outages |-> outages, local |-> local, file_i |-> file_i,
     attempt |-> attempt, stats |-> stats,
     download_count |-> download_count,
     current_batch_count |-> current_batch_count,
     download_status |-> download_status, file_db |-> file_db,
     current_index |-> current_index, db_latest_time |-> db_latest_time]

FCommit(n) ==
    /\ stop_flag' = n.stop_flag
    /\ pc' = n.pc
    /\ net' = n.net
    /\ sleep_left' = n.sleep_left
    /\ attempts' = n.attempts
    /\ result' = n.result
    /\ done_reason' = n.done_reason
    /\ last_outcome' = n.last_outcome
    /\ outages' = n.outages
    /\ local' = n.local
    /\ file_i' = n.file_i
    /\ attempt' = n.attempt
    /\ stats' = n.stats
    /\ download_count' = n.download_count
    /\ current_batch_count' = n.current_batch_count
    /\ download_status' = n.download_status
    /\ file_db' = n.file_db
    /\ current_index' = n.current_index
    /\ db_latest_time' = n.db_latest_time

InitFile ==
    /\ mode = "download"
    /\ files_to_download \in { [k \in 1..n |-> k] : n \in 0..MaxFiles }
    /\ null_size \in SUBSET (1..Len(files_to_download))
    /\ local \in SUBSET (1..Len(files_to_download))
    /\ download_status = [k \in 1..Len(files_to_download) |-> "pending"]
    /\ file_db = 1..Len(files_to_download)
    /\ file_db0 = file_db
    /\ current_index = None
    /\ db_latest_time = None
    /\ file_i = 0
    /\ attempt = 0
    /\ stats = FileStats0
    /\ download_count = 0
    /\ current_batch_count = 0
    /\ stop_req = FALSE
    /\ stop_flag = FALSE
    /\ pc = "f_start"
    /\ net = "idle"
    /\ sleep_left = 0
    /\ attempts = 0
    /\ result = "running"
    /\ done_reason = "none"
    /\ last_outcome = "none"
    /\ outages = 0
    /\ pages = 0
    /\ feed = <<>>
    /\ win = [start |-> BaseMs, end |-> BaseMs]
    /\ db = {}
    /\ end_time = None
    /\ start_end_time = None
    /\ current_page = 0
    /\ completed_pages = 0
    /\ retry_count = 0
    /\ page_success = FALSE
    /\ consecutive_empty_pages = 0
    /\ total_stats = Stats0
    /\ topics = <<>>
    /\ batch = <<>>
    /\ idx = 0
    /\ page_stats = PageStats0
    /\ existing_count = 0
    /\ new_topics_count = 0
    /\ last_time_dt_in_page = None
    /\ page_count = 0
    /\ all_new_topics = <<>>
    /\ req_cursor = None
    /\ page_cursor = None
    /\ imported = {}
    /\ uncommitted = {}
    /\ commits = 0
    /\ fetch_calls = 0
    /\ run = 1
    /\ db_first = {}
    /\ task_status = "running"
    /\ runner_returned = FALSE

----------------------------------------------------------------------------
(* Shared pieces of the downloader *)

\* ZSXQFileDownloader.check_stop / is_stopped: the value it returns ...
check_stop(s) == s.stop_flag \/ stop_req

\* ... and its effect on the local flag
FLatch(s) == [s EXCEPT !.stop_flag = check_stop(s)]

\* time.sleep: one 0.1 s of a sleep that nothing interrupts; woken is the
\* downloader as the code after the sleep leaves it
time_sleep(s, woken) ==
    IF s.sleep_left > 1
    THEN [s EXCEPT !.sleep_left = @ - 1]
    ELSE woken

FReturn(s, why) ==
    [s EXCEPT !.pc = "done", !.result = "stats", !.done_reason = why]

\* the file the loop of download_files_from_database is at
FileId(s) == files_to_download[s.file_i]

\* download_file returned False: the `else` branch of the loop body
FileFailed(s) ==
    [s EXCEPT !.stats.failed = @ + 1,
              !.download_status[FileId(s)] = "failed",
              !.net = "idle",
              !.file_i = @ + 1, !.pc = "f_loop"]

\* download_file returned "skipped"
FileSkipped(s) ==
    [s EXCEPT !.stats.skipped = @ + 1,
              !.download_status[FileId(s)] = "skipped",
              !.file_i = @ + 1, !.pc = "f_loop"]

\* the loop body raised: `except Exception: stats['failed'] += 1; continue`
FileRaised(s) ==
    [s EXCEPT !.stats.failed = @ + 1, !.file_i = @ + 1, !.pc = "f_loop"]

\* `if i < len(files_to_download): self.download_delay()`, then the next file
AfterLongDelay(s) ==
    IF s.file_i < Len(files_to_download)
    THEN [s EXCEPT !.pc = "f_download_delay", !.sleep_left = SleepTicks]
    ELSE [s EXCEPT !.file_i = @ + 1, !.pc = "f_loop"]

\* download_file returned True: status update, then check_long_delay
FileDownloaded(s) ==
    LET s1 == [s EXCEPT !.stats.downloaded = @ + 1,
                        !.download_status[FileId(s)] = "completed"]
    IN  IF s1.download_count > 0
           /\ s1.download_count % LongDelayInterval = 0
        THEN [s1 EXCEPT !.pc = "f_long_delay", !.sleep_left = LongSleepTicks]
        ELSE AfterLongDelay(s1)

----------------------------------------------------------------------------
(* download_files_from_database and download_file *)

\* entry: stop test, the query, the stats record
download_files_from_database(s) ==
    IF check_stop(s) THEN FReturn(FLatch(s), "stopped")
    ELSE IF files_to_download = <<>> THEN FReturn(s, "nofiles")
    ELSE [s EXCEPT !.stats = [FileStats0 EXCEPT
                                !.total_files = Len(files_to_download)],
                   !.file_i = 1, !.pc = "f_loop"]

\* top of `for i, (...) in enumerate(files_to_download, 1)`
FileLoopTop(s) ==
    IF s.file_i > Len(files_to_download) THEN FReturn(s, "complete")
    ELSE IF check_stop(s) THEN FReturn(FLatch(s), "stopped")
    ELSE [s EXCEPT !.pc = "f_file"]

\* download_file up to the call of get_download_url: stop test, local copy
\* of matching size, then the first iteration of the retry loop
\* (variant: the local copy is not looked at, the file is fetched again)
download_file_again(s) ==
    IF check_stop(s) THEN FileFailed(FLatch(s))
    ELSE [s EXCEPT !.attempt = 0, !.attempts = 0,
                   !.pc = "f_smart_delay", !.sleep_left = SleepTicks]
download_file(s) ==
    IF check_stop(s) THEN FileFailed(FLatch(s))
    ELSE IF FileId(s) \in s.local THEN FileSkipped(s)
    ELSE [s EXCEPT !.attempt = 0, !.attempts = 0,
                   !.pc = "f_smart_delay", !.sleep_left = SleepTicks]

\* `if attempt > 0: time.sleep(retry_delay)`, then smart_delay starts
retry_delay_sleep(s) ==
    time_sleep(s, [s EXCEPT !.pc = "f_smart_delay",
                            !.sleep_left = SleepTicks])

\* ZSXQFileDownloader.smart_delay, then the request is prepared
smart_delay(s) ==
    time_sleep(s, [s EXCEPT !.pc = "f_send", !.sleep_left = 0])

\* self.session.get(url, ...) of get_download_url
get_download_url_request(s) ==
    [s EXCEPT !.pc = "f_inflight", !.net = "download_url",
              !.attempts = @ + 1]

\* the remote starts a new failure or continues its streak of retried ones
UrlAllowed(s, o) ==
    \/ o = "ok"
    \/ o \in RetriedOutcomes \cup {"no_url"} /\ s.last_outcome = o
    \/ s.last_outcome \in {"none", "ok"} /\ s.outages < MaxOutages

CountOutage(s, o) ==
    [s EXCEPT !.net = "idle", !.last_outcome = o,
              !.outages = IF o = "ok" \/ s.last_outcome = o THEN @ ELSE @ + 1]

\* the status and payload handling of get_download_url, and what
\* download_file does with the value returned
\* (variant: code 1030 fails the file and leaves the stop flag alone)
get_download_url_response_noflag(s, o) ==
    LET s0 == CountOutage(s, o)
    IN  CASE o = "ok" -> [s0 EXCEPT !.pc = "f_get"]
          [] o \in FinalOutcomes \cup {"code1030"} -> FileFailed(s0)
          [] o \in RetriedOutcomes \cup {"no_url"} ->
                IF s.attempt < max_retries - 1
                THEN [s0 EXCEPT !.attempt = @ + 1, !.pc = "f_retry_sleep",
                                !.sleep_left = SleepTicks]
                ELSE FileFailed(s0)
\* (variant: the last attempt is retried once more)
get_download_url_response_late(s, o) ==
    LET s0 == CountOutage(s, o)
    IN  CASE o = "ok" -> [s0 EXCEPT !.pc = "f_get"]
          [] o = "code1030" -> FileFailed([s0 EXCEPT !.stop_flag = TRUE])
          [] o \in FinalOutcomes -> FileFailed(s0)
          [] o \in RetriedOutcomes \cup {"no_url"} ->
                IF s.attempt < max_retries
                THEN [s0 EXCEPT !.attempt = @ + 1, !.pc = "f_retry_sleep",
                                !.sleep_left = SleepTicks]
                ELSE FileFailed(s0)
get_download_url_response(s, o) ==
    LET s0 == CountOutage(s, o)
    IN  CASE o = "ok" -> [s0 EXCEPT !.pc = "f_get"]
          [] o = "code1030" -> FileFailed([s0 EXCEPT !.stop_flag = TRUE])
          [] o \in FinalOutcomes -> FileFailed(s0)
          [] o \in RetriedOutcomes \cup {"no_url"} ->
                IF s.attempt < max_retries - 1
                THEN [s0 EXCEPT !.attempt = @ + 1, !.pc = "f_retry_sleep",
                                !.sleep_left = SleepTicks]
                ELSE FileFailed(s0)

\* self.session.get(download_url, timeout=300, stream=True)
download_file_get(s) == [s EXCEPT !.pc = "f_stream", !.net = "file"]

\* _apply_download_intervals: which sleep follows a download
apply_download_intervals(s) ==
    IF s.current_batch_count >= FilesPerBatch
    THEN [s EXCEPT !.pc = "f_batch_sleep", !.sleep_left = LongSleepTicks]
    ELSE [s EXCEPT !.pc = "f_interval_sleep", !.sleep_left = SleepTicks]

\* the body arrives: a stop seen after a chunk ends the download as a
\* failure, with the whole file written or not; otherwise the counters
download_file_stream(s, o, whole) ==
    LET s0 == CountOutage(s, o)
    IN  IF o = "error" THEN FileFailed(s0)
        ELSE IF check_stop(s0)
        THEN FileFailed([FLatch(s0) EXCEPT
                           !.local = IF whole THEN @ \cup {FileId(s)} ELSE @])
        ELSE apply_download_intervals(
                [s0 EXCEPT !.local = @ \cup {FileId(s)},
                           !.download_count = @ + 1,
                           !.current_batch_count = @ + 1])

\* the long sleep of _apply_download_intervals, then the batch count is reset
batch_sleep(s) ==
    time_sleep(s, FileDownloaded([s EXCEPT !.sleep_left = 0,
                                           !.current_batch_count = 0]))

\* the download_interval sleep of _apply_download_intervals
interval_sleep(s) ==
    time_sleep(s, FileDownloaded([s EXCEPT !.sleep_left = 0]))

\* the sleep of check_long_delay
check_long_delay(s) ==
    time_sleep(s, AfterLongDelay([s EXCEPT !.sleep_left = 0]))

\* the sleep of download_delay, then the next file
download_delay(s) ==
    time_sleep(s, [s EXCEPT !.sleep_left = 0, !.file_i = @ + 1,
                            !.pc = "f_loop"])

----------------------------------------------------------------------------
(* Actions of the downloader session *)

\* stop_task with the downloader registered: task flag and set_stop_flag()
StopFile ==
    /\ pc # "done"
    /\ ~stop_req
    /\ stop_req' = TRUE
    /\ stop_flag' = TRUE
    /\ UNCHANGED <<mode, cvars, files_to_download, null_size, local, file_i,
                   attempt,
                   stats, download_count, current_batch_count,
                   download_status, file_db, file_db0, current_index,
                   db_latest_time, pc, net, sleep_left, attempts, result,
                   done_reason, last_outcome, outages>>

FStep(n) ==
    /\ FCommit(n)
    /\ UNCHANGED <<mode, cvars, files_to_download, null_size, file_db0,
                   stop_req>>

FileStart == pc = "f_start" /\ FStep(download_files_from_database(FCur))

FileLoop == pc = "f_loop" /\ FStep(FileLoopTop(FCur))

\* the loop body up to download_file: the log line divides file_size by
\* 1024, which raises TypeError for a row whose size is NULL
DownloadFile ==
    /\ pc = "f_file"
    /\ FStep(IF FileId(FCur) \in null_size THEN FileRaised(FCur)
             ELSE download_file(FCur))

RetrySleep == pc = "f_retry_sleep" /\ FStep(retry_delay_sleep(FCur))

SmartDelayFile == pc = "f_smart_delay" /\ FStep(smart_delay(FCur))

UrlRequest == pc = "f_send" /\ FStep(get_download_url_request(FCur))

UrlResponse ==
    /\ pc = "f_inflight"
    /\ \E o \in UrlOutcomes :
        /\ UrlAllowed(FCur, o)
        /\ FStep(get_download_url_response(FCur, o))

FileGet == pc = "f_get" /\ FStep(download_file_get(FCur))

FileResponse ==
    /\ pc = "f_stream"
    /\ \E o \in FileOutcomes, whole \in BOOLEAN :
        /\ UrlAllowed(FCur, o)
        /\ FStep(download_file_stream(FCur, o, whole))

BatchSleep == pc = "f_batch_sleep" /\ FStep(batch_sleep(FCur))

IntervalSleep == pc = "f_interval_sleep" /\ FStep(interval_sleep(FCur))

LongDelay == pc = "f_long_delay" /\ FStep(check_long_delay(FCur))

DownloadDelay == pc = "f_download_delay" /\ FStep(download_delay(FCur))

NextFile ==
    \/ StopFile
    \/ FileStart
    \/ FileLoop
    \/ DownloadFile
    \/ RetrySleep
    \/ SmartDelayFile
    \/ UrlRequest
    \/ UrlResponse
    \/ FileGet
    \/ FileResponse
    \/ BatchSleep
    \/ IntervalSleep
    \/ LongDelay
    \/ DownloadDelay

SpecFile == InitFile /\ [][NextFile]_vars

----------------------------------------------------------------------------
(* The file list collection of the downloader (collect_incremental_files) *)

\* the files endpoint: the newest `count` files created before the index,
\* all files counting as older than no index
RemoteFiles(fd, index, count) ==
    Take(SelectSeq(fd, LAMBDA it : \/ index = None
                                   \/ ParseTime(it.create_time) < index[1]),
         count)

\* resp_data.index: the create_time of the page's oldest file as a
\* millisecond count when the page is full, absent after a short page
NextIndex(page, count) ==
    IF Len(page) = count THEN <<ParseTime(OldestOf(page))>> ELSE None

\* `a > b` of two create_time strings: characters compared left to right
StrGreater(a, b) == a[1] > b[1] \/ (a[1] = b[1] /\ a[2] > b[2])

InitCollect ==
    /\ mode = "collect"
    /\ feed \in Feeds
    /\ file_db \in SUBSET Ids(feed)
    /\ file_db0 = file_db
    /\ current_index = None
    /\ db_latest_time = None
    /\ files_to_download = <<>>
    /\ null_size = {}
    /\ local = {}
    /\ download_status = <<>>
    /\ file_i = 0
    /\ attempt = 0
    /\ stats = FileStats0
    /\ download_count = 0
    /\ current_batch_count = 0
    /\ stop_req = FALSE
    /\ stop_flag = FALSE
    /\ pc = "c_start"
    /\ net = "idle"
    /\ sleep_left = 0
    /\ attempts = 0
    /\ result = "running"
    /\ done_reason = "none"
    /\ last_outcome = "none"
    /\ outages = 0
    /\ pages = 0
    /\ win = [start |-> BaseMs, end |-> BaseMs]
    /\ db = {}
    /\ end_time = None
    /\ start_end_time = None
    /\ current_page = 0
    /\ completed_pages = 0
    /\ retry_count = 0
    /\ page_success = FALSE
    /\ consecutive_empty_pages = 0
    /\ total_stats = Stats0
    /\ topics = <<>>
    /\ batch = <<>>
    /\ idx = 0
    /\ page_stats = PageStats0
    /\ existing_count = 0
    /\ new_topics_count = 0
    /\ last_time_dt_in_page = None
    /\ page_count = 0
    /\ all_new_topics = <<>>
    /\ req_cursor = None
    /\ page_cursor = None
    /\ imported = {}
    /\ uncommitted = {}
    /\ commits = 0
    /\ fetch_calls = 0
    /\ run = 1
    /\ db_first = {}
    /\ task_status = "running"
    /\ runner_returned = FALSE

\* collect_files_by_time up to its loop: stop test, then MAX(create_time) of
\* the files table when it holds rows (sort is by_create_time, force_refresh
\* is not set)
collect_files_by_time(s, start_time) ==
    IF check_stop(s) THEN FReturn(FLatch(s), "stopped")
    ELSE [s EXCEPT !.current_index = start_time,
                   !.db_latest_time =
                       IF s.file_db = {} THEN None
                       ELSE LET n == CHOOSE k \in s.file_db :
                                        \A j \in s.file_db : k <= j
                            IN  <<feed[n].create_time>>,
                   !.pc = "c_loop"]

\* collect_incremental_files: stop test, get_database_time_range, then the
\* oldest stored create_time as a millisecond count is the first index
collect_incremental_files(s) ==
    IF check_stop(s) THEN FReturn(FLatch(s), "stopped")
    ELSE IF s.file_db = {} THEN collect_files_by_time(s, None)
    ELSE collect_files_by_time(s, <<ParseTime(OldestStored(s.file_db))>>)

\* top of `while True`: stop test, then fetch_file_list begins
CollectLoopTop(s) ==
    IF check_stop(s) THEN FReturn(FLatch(s), "stopped")
    ELSE [s EXCEPT !.attempt = 0, !.attempts = 0,
                   !.pc = "f_smart_delay", !.sleep_left = SleepTicks]

\* self.session.get(url, ..., params=params) of fetch_file_list
fetch_file_list_request(s) ==
    [s EXCEPT !.pc = "f_inflight", !.net = "files", !.attempts = @ + 1]

\* the loop body of collect_files_by_time once fetch_file_list returned
\* data; raises tells whether import_file_response raised
collect_page(s, raises) ==
    LET files == RemoteFiles(feed, s.current_index, PerPage)
        next_index == NextIndex(files, PerPage)
        newer_files ==
            IF s.db_latest_time = None THEN files
            ELSE SelectSeq(files, LAMBDA f :
                     StrGreater(f.create_time, s.db_latest_time[1]))
        should_stop_after_insert ==
            s.db_latest_time # None /\ Len(newer_files) < Len(files)
        stored == [s EXCEPT !.file_db = @ \cup Ids(newer_files)]
    IN  IF files = <<>> THEN FReturn(s, "empty")
        ELSE IF newer_files = <<>> THEN FReturn(s, "no_newer")
        ELSE IF raises
        THEN [s EXCEPT !.pc = "c_loop", !.outages = @ + 1]
        ELSE IF should_stop_after_insert THEN FReturn(stored, "older_seen")
        ELSE IF next_index # None
        THEN [stored EXCEPT !.current_index = next_index,
                            !.pc = "c_page_sleep", !.sleep_left = SleepTicks]
        ELSE FReturn(stored, "last_page")

\* the status and payload handling of fetch_file_list, and what
\* collect_files_by_time does with the value returned
fetch_file_list_response(s, o, raises) ==
    LET s0 == CountOutage(s, o)
    IN  CASE o = "ok" -> collect_page(s0, raises)
          [] o \in FinalOutcomes -> FReturn(s0, "fetch_failed")
          [] o \in RetriedOutcomes ->
                IF s.attempt < max_retries - 1
                THEN [s0 EXCEPT !.attempt = @ + 1, !.pc = "f_retry_sleep",
                                !.sleep_left = SleepTicks]
                ELSE FReturn(s0, "fetch_failed")

CollectStart == pc = "c_start" /\ FStep(collect_incremental_files(FCur))

CollectLoop == pc = "c_loop" /\ FStep(CollectLoopTop(FCur))

FileListRequest == pc = "f_send" /\ FStep(fetch_file_list_request(FCur))

\* a storage error is one of the failures the session meets at most
\* MaxOutages times
FileListResponse ==
    /\ pc = "f_inflight"
    /\ \E o \in {"ok"} \cup RetriedOutcomes \cup FinalOutcomes,
          raises \in BOOLEAN :
        /\ UrlAllowed(FCur, o)
        /\ raises => (o = "ok" /\ outages < MaxOutages)
        /\ FStep(fetch_file_list_response(FCur, o, raises))

\* time.sleep(random.uniform(2, 5)) between two pages
PageSleep ==
    /\ pc = "c_page_sleep"
    /\ FStep(time_sleep(FCur, [FCur EXCEPT !.sleep_left = 0, !.pc = "c_loop"]))

NextCollect ==
    \/ StopFile
    \/ CollectStart
    \/ CollectLoop
    \/ RetrySleep
    \/ SmartDelayFile
    \/ FileListRequest
    \/ FileListResponse
    \/ PageSleep

SpecCollect == InitCollect /\ [][NextCollect]_vars

----------------------------------------------------------------------------
(* Properties of the crawler session *)

\* C1 (cursor monotonicity): in every mode, a request that is issued after
\* some request returned at least one item carries a cursor strictly older
\* than the cursor of that request (None, the cursor of a first page,
\* stands for "now").
CursorMonotonic ==
    (pc = "inflight" /\ page_cursor # None)
        => CursorBefore(req_cursor, page_cursor[1])

\* a request at a cursor is outstanding after a page fetched at an older
\* request's cursor returned items
CursorMonotonicWitness ==
    /\ pc = "inflight"
    /\ page_cursor # None
    /\ page_cursor[1] # None
    /\ req_cursor # None
    /\ retry_count = 0

\* C2 (idempotence of crawl_historical): when crawl_historical(pages,
\* per_page) ran to its end twice in a row with no failing response and no
\* stop request, the stored ids after the second run are the stored ids
\* after the first run and the second run reports new_topics = 0, every
\* stored item of its pages being counted as updated.
HistoricalIdempotent ==
    (mode = "historical" /\ run = 2 /\ pc = "done" /\ outages = 0
        /\ ~stop_req /\ last_outcome # "expired")
        => /\ db = db_first
           /\ total_stats.new_topics = 0
           /\ total_stats.updated_topics <= Cardinality(db)

\* a second run ended after it went through a page of stored items
HistoricalIdempotentWitness ==
    /\ mode = "historical" /\ run = 2 /\ pc = "done" /\ outages = 0
    /\ ~stop_req /\ last_outcome # "expired"
    /\ total_stats.updated_topics >= PerPage
    /\ total_stats.pages = MaxPages

\* C5 (catch-up, full overlap on the first page): when every item of the
\* first page crawl_latest_until_complete fetched is already stored, the
\* mode ends after that one fetch and returns stats with new_topics = 0
\* and pages = 1.
FullOverlapStats ==
    (mode = "latest" /\ done_reason = "full_overlap" /\ current_page = 1)
        => /\ pc = "done"
           /\ net = "idle"
           /\ total_stats.new_topics = 0
           /\ total_stats.pages = 1

\* C6 (catch-up, partial overlap): a page of crawl_latest_until_complete
\* with 0 < existing_count < len(topics) makes the mode import exactly the
\* topics of the page that were not stored, keep running, and set the
\* cursor of the next request from the oldest item of the page.
PartialOverlapStep ==
    (/\ mode = "latest"
     /\ pc = "inflight"
     /\ pc' # "inflight"
     /\ last_outcome' = "ok"
     /\ topics' # <<>>
     /\ 0 < existing_count'
     /\ existing_count' < Len(topics'))
        => /\ imported' = Ids(topics') \ db
           /\ db' = db \cup imported'
           /\ total_stats'.new_topics
                = total_stats.new_topics + Cardinality(imported')
           /\ pc' \in {"outer", "longsleep"}
           /\ result' = "running"
           /\ end_time' = <<SubOffset(OldestOf(topics'))>>
PartialOverlap == [][PartialOverlapStep]_vars

\* the catch-up mode went through a page that was stored in part, and
\* the request for the next older page is outstanding
PartialOverlapWitness ==
    /\ mode = "latest"
    /\ pc = "inflight"
    /\ 0 < existing_count
    /\ existing_count < Len(topics)
    /\ imported # {}
    /\ req_cursor = <<SubOffset(OldestOf(topics))>>

\* C7 (retry exhaustion count): in every mode a page is requested at most
\* max_retries_per_page times, and a page whose retries are used up with
\* no stop request has been requested exactly max_retries_per_page times.
RetryExhaustionCount ==
    /\ attempts <= max_retries_per_page
    /\ (retry_count >= max_retries_per_page /\ ~stop_req)
          => attempts = max_retries_per_page

\* a page was given up after the rate limit answered every attempt
RetryExhaustionWitness ==
    /\ retry_count = max_retries_per_page
    /\ attempts = max_retries_per_page
    /\ last_outcome = "ratelimit"
    /\ ~stop_req
    /\ pc \in {"outer", "done"}

\* the retry loop of the current page ends in this step with every retry
\* used up and no stop request seen
ExhaustionStep ==
    /\ pc = "retry"
    /\ pc' # "retry"
    /\ retry_count >= max_retries_per_page
    /\ ~stop_req
    /\ ~stop_flag

BoundedSkipsExhaustedPageStep ==
    (mode \in Bounded /\ ExhaustionStep)
        => /\ pc' = "outer"
           /\ result' = "running"
           /\ completed_pages' = completed_pages + 1
           /\ end_time' = SkipCursor(end_time)
AllSurvivesExhaustionStep ==
    (mode = "all" /\ ExhaustionStep)
        => /\ pc' = "outer"
           /\ result' = "running"
           /\ end_time' = SkipCursor(end_time)
AllSurvivesExhaustion == [][AllSurvivesExhaustionStep]_vars

\* C10 (membership expiry is terminal): in every mode, a fetch that
\* reported the membership-expired code ends the session with no further
\* request and with a result marked expired.
ExpiryIsTerminal ==
    last_outcome = "expired"
        => /\ pc = "done"
           /\ net = "idle"
           /\ result = "expired"

----------------------------------------------------------------------------
(* Properties of cancellation, for the crawler and for the downloader *)

\* C3 (no network call after cancellation): once is_stopped() is true, by
\* the task flag or by the session's own stop flag, no step of the session
\* issues a request: no page fetch, no download-URL fetch, no file fetch
\* and no retry of one.
NoRequestAfterStopStep ==
    (stop_flag \/ stop_req) => (net' = net \/ net' = "idle")
NoRequestAfterStop == [][NoRequestAfterStopStep]_vars

\* C4 (every delay is preemptible): a sleep of the crawler or of the
\* downloader that is in progress while the cancellation flag is true ends
\* with the next 0.1 s sub-wait instead of running on.
SleepPreemptedStep ==
    ((stop_flag \/ stop_req) /\ sleep_left > 0) => sleep_left' = 0
SleepPreempted == [][SleepPreemptedStep]_vars

----------------------------------------------------------------------------
(* Properties of failure handling *)

\* C11: once a topics request was answered with HTTP 401 or 403 the session
\* is over: no further request goes out, neither a retry of the page nor a
\* request for a later page.
AuthFailureAborts == last_outcome = "auth" => net = "idle"

\* C12: in the time-range task a successful fetch that returns no topics
\* ends the task, on the first page and on every later one: the task is
\* finished with the response and no further fetch is made.
RangeStopsOnEmptyPage ==
    (mode = "range" /\ last_outcome = "ok" /\ topics = <<>>)
        => (pc = "done" /\ done_reason = "empty")

----------------------------------------------------------------------------
(* Properties of the time-range task *)

\* C13: when the oldest item of a fetched page is earlier than the start of
\* the window, the time-range task stores the items of that page that lie in
\* the window and ends without requesting another page: from the response on
\* it is storing that page or finished, nothing but in-window items of the
\* page is imported, and unless it was stopped while storing it finishes with
\* all of them stored.
RangeBoundaryStop ==
    LET IdsInWindow ==
            { topics[i].topic_id :
                i \in { j \in 1..Len(topics) :
                          /\ win.start <= ParseTime(topics[j].create_time)
                          /\ ParseTime(topics[j].create_time) <= win.end } }
    IN  (/\ mode = "range"
         /\ last_time_dt_in_page # None
         /\ last_time_dt_in_page[1] < win.start)
            => /\ net = "idle"
               /\ pc \in {"store", "done"}
               /\ imported \subseteq IdsInWindow
               /\ imported \subseteq db
               /\ pc = "done" => /\ result = "stats"
                                 /\ done_reason = "boundary"
                                 /\ ~stop_req => imported = IdsInWindow

RangeBoundaryStopWitness ==
    /\ mode = "range"
    /\ pc = "done"
    /\ done_reason = "boundary"
    /\ ~stop_req
    /\ last_time_dt_in_page[1] < win.start
    /\ imported # {}
    /\ Len(topics) > Cardinality(imported)

----------------------------------------------------------------------------
(* Properties of completeness *)

\* C14: crawl_historical stores a page that holds fewer than per_page items
\* and then stops; against a remote of M items that never fails, with
\* pages * per_page >= M and no stop request, the run ends with all M items
\* stored and total_stats.pages equal to the number of non-empty pages of
\* the feed, the short last page included.
HistoricalShortPageStop ==
    (/\ mode = "historical"
     /\ run = 1
     /\ pc = "done"
     /\ outages = 0
     /\ last_outcome # "expired"
     /\ ~stop_req
     /\ pages * PerPage >= Len(feed))
        => /\ Ids(feed) \subseteq db
           /\ total_stats.pages = (Len(feed) + PerPage - 1) \div PerPage
           /\ Len(feed) % PerPage # 0 => done_reason = "short"


AllExhaustive ==
    (/\ mode = "all"
     /\ pc = "done"
     /\ done_reason = "complete"
     /\ start_end_time = None
     /\ outages = 0
     /\ ~stop_req)
        => Ids(feed) \subseteq db


\* C17: failed attempts that a later retry of the same page makes good leave
\* no trace in storage. For crawl_historical: when a run that was neither
\* stopped nor told of an expiry ends and no page used up its retries, every
\* item that the run without any failure stores is stored, none was skipped
\* because of the retries.
TransientFailuresInvisible ==
    LET RECURSIVE FailureFree(_, _)
        FailureFree(cursor, left) ==
            LET page == RemotePage(feed, cursor, PerPage)
            IN  IF left = 0 \/ page = <<>> THEN {}
                ELSE IF Len(page) < PerPage THEN Ids(page)
                ELSE Ids(page) \cup
                     FailureFree(<<FormatTime(ParseTime(OldestOf(page))
                                              - timestamp_offset_ms)>>,
                                 left - 1)
    IN  (/\ mode = "historical"
         /\ run = 1
         /\ pc = "done"
         /\ ~stop_req
         /\ last_outcome # "expired"
         /\ completed_pages = total_stats.pages)
            => FailureFree(None, pages) \subseteq db

----------------------------------------------------------------------------
(* Properties of the cursor and of the statistics *)

\* C18: in every mode, after a non-empty page was consumed and the mode goes
\* on to the next page, the cursor is the create_time of the page's oldest
\* item minus timestamp_offset_ms, a well-formed wire timestamp.
CursorAdvance ==
    (pc \in {"outer", "longsleep"} /\ last_outcome = "ok" /\ topics # <<>>)
        => /\ end_time # None
           /\ end_time[1][2] \in 0..(MsPerSecond - 1)
           /\ ParseTime(end_time[1])
                = ParseTime(topics[Len(topics)].create_time)
                  - timestamp_offset_ms

CursorAdvanceWitness ==
    /\ pc = "outer"
    /\ last_outcome = "ok"
    /\ Len(topics) = PerPage
    /\ topics[1].create_time # topics[PerPage].create_time
    /\ mode = "incremental"
    /\ end_time # None


\* C19: a stop request is not an error. A session that ends because it was
\* stopped returns the statistics of the pages processed before the stop;
\* the fetch attempt the stop made it abandon adds nothing to errors, so a
\* stopped session that saw no failing response reports errors = 0.
CancellationNotAnError ==
    (pc = "done" /\ done_reason = "stopped" /\ outages = 0)
        => total_stats.errors = 0


ErrorsCountStep ==
    (pc = "inflight" /\ pc' # "inflight") =>
        /\ last_outcome' \in Failing =>
              /\ total_stats'.errors = total_stats.errors + 1
              /\ retry_count' = retry_count + 1
        /\ last_outcome' = "ok" =>
              /\ total_stats'.errors = total_stats.errors
              /\ retry_count' = retry_count
              /\ attempts = retry_count + 1

----------------------------------------------------------------------------
(* Properties of pacing *)

\* C21: while a page is retried, the wait before the retry that follows
\* failed attempt n of the page is the graduated one: 2 s for n in 1..3, 5 s
\* for n in 4..6, 10 s for n in 7..10.
GraduatedBackoff ==
    (pc = "sleep" /\ retry_count >= 1)
        => SmartDelaySeconds(IsHistoricalArg(Cur)) = {wait_time(retry_count - 1)}

----------------------------------------------------------------------------
(* Properties of the file downloader *)

\* C22: in the file downloader a long sleep follows a successful download
\* exactly when the number of successful downloads since the previous long
\* sleep (or since the start of the session) equals files_per_batch: while a
\* long sleep runs, that number is files_per_batch, and a download that
\* brings it to files_per_batch is followed by a long sleep.
LongSleepCadence ==
    /\ pc \in {"f_batch_sleep", "f_long_delay"}
          => current_batch_count = FilesPerBatch
    /\ (pc = "f_interval_sleep" \/ pc = "f_download_delay")
          => current_batch_count < FilesPerBatch


\* (download_file is not called for a row whose size is NULL)
DedupStep ==
    (/\ pc = "f_file" /\ pc' # "f_file"
     /\ files_to_download[file_i] \in local
     /\ files_to_download[file_i] \notin null_size) =>
        /\ pc' = "f_loop"
        /\ net' = "idle"
        /\ attempts' = attempts
        /\ local' = local
        /\ download_count' = download_count
        /\ current_batch_count' = current_batch_count
        /\ stats'.downloaded = stats.downloaded
        /\ ~(stop_flag \/ stop_req) =>
              /\ download_status'[files_to_download[file_i]] = "skipped"
              /\ stats'.skipped = stats.skipped + 1
              /\ stats'.failed = stats.failed

----------------------------------------------------------------------------
(* Properties of the exhaustive and the catch-up mode *)

\* C24: the first request of crawl_all_historical carries no cursor when
\* storage is empty, and otherwise the cursor that is timestamp_offset_ms
\* before the oldest create_time in storage.
AllResumePosition ==
    (mode = "all" /\ current_page = 1 /\ attempts = 1 /\ net = "topics")
        => IF db = {} THEN req_cursor = None
           ELSE /\ req_cursor # None
                /\ req_cursor = start_end_time
                /\ \E i \in db :
                      /\ \A j \in db : ParseTime(feed[i].create_time)
                                         <= ParseTime(feed[j].create_time)
                      /\ ParseTime(req_cursor[1])
                           = ParseTime(feed[i].create_time)
                             - timestamp_offset_ms

AllResumePositionWitness ==
    /\ mode = "all"
    /\ current_page = 1
    /\ attempts = 1
    /\ net = "topics"
    /\ db = {1, 2}
    /\ feed[1].create_time # feed[2].create_time
    /\ req_cursor # None


\* C25: when crawl_latest_until_complete completes (a page wholly in storage
\* or an empty page ended it), the value the caller receives holds, besides the counters, the ordered list of the
\* items that were new to storage during the session.
CatchUpReturnsNewItems ==
    (/\ mode = "latest"
     /\ pc = "done"
     /\ result = "stats"
     /\ done_reason \in {"full_overlap", "empty"})
        => LET counters == {"pages", "new_topics", "updated_topics", "errors"}
           IN  /\ counters \subseteq DOMAIN ReturnValue
               /\ \E f \in DOMAIN ReturnValue \ counters :
                      ReturnValue[f] = all_new_topics

----------------------------------------------------------------------------
(* Properties of storage *)

\* C26: store_batch_data commits once, before it returns, whenever it
\* imported an item of the page, also when a stop ends its loop part-way:
\* outside the function nothing imported is uncommitted, and after a call
\* that imported something exactly one commit was made; inside the function
\* the imports of the page are the open transaction.
PerPageCommit ==
    /\ imported \subseteq db
    /\ pc # "store" => /\ uncommitted = {}
                       /\ imported # {} => commits = 1
    /\ pc = "store" => /\ uncommitted = imported
                       /\ commits = 0

PerPageCommitWitness ==
    /\ pc # "store"
    /\ stop_flag
    /\ imported # {}
    /\ Cardinality(imported) < Len(batch)
    /\ idx = Cardinality(imported) + 1
    /\ imported = { batch[k].topic_id : k \in 1..(idx - 1) }
    /\ uncommitted = {}
    /\ commits = 1


StatsMonotonicStep ==
    run' = run =>
        /\ total_stats'.new_topics >= total_stats.new_topics
        /\ total_stats'.updated_topics >= total_stats.updated_topics
        /\ total_stats'.errors >= total_stats.errors
        /\ total_stats'.pages >= total_stats.pages

\* C27: within one session none of the counters new_topics, updated_topics,
\* errors and pages of total_stats decreases from one state to the next.
StatsMonotonic == [][StatsMonotonicStep]_vars

StatsMonotonicWitness ==
    /\ total_stats.pages >= 2
    /\ total_stats.new_topics >= 1
    /\ total_stats.updated_topics >= 1
    /\ total_stats.errors >= 1

----------------------------------------------------------------------------
(* Properties of the cancellation flag *)

----------------------------------------------------------------------------
(* Properties of the requests *)

----------------------------------------------------------------------------
(* Properties of the file list collection *)

\* C31: collect_incremental_files, run on a files table that holds rows,
\* takes the oldest stored create_time as the index of its first request,
\* and when it has ended with no failure and no stop request every remote
\* file that is older than the oldest file stored before is in the table.
IncrementalReachesOlder ==
    (mode = "collect" /\ file_db0 # {}) =>
        /\ (pc = "c_loop" /\ attempts = 0) =>
              /\ current_index # None
              /\ \E i \in file_db0 :
                    /\ \A j \in file_db0 : ParseTime(feed[i].create_time)
                                             <= ParseTime(feed[j].create_time)
                    /\ current_index[1] = ParseTime(feed[i].create_time)
        /\ (pc = "done" /\ outages = 0 /\ ~stop_req) =>
              \A i \in Ids(feed) :
                  (\A j \in file_db0 : ParseTime(feed[i].create_time)
                                         < ParseTime(feed[j].create_time))
                      => i \in file_db


CollectProgressStep ==
    (mode = "collect" /\ pc = "f_inflight"
        /\ pc' \notin {"f_inflight", "f_retry_sleep"})
        => \/ pc' = "done"
           \/ /\ current_index' # current_index
              /\ current_index' # None
              /\ current_index'
                   = NextIndex(RemoteFiles(feed, current_index, PerPage), PerPage)

\* C37: every iteration of the loop of collect_files_by_time that got an
\* answer from fetch_file_list either leaves the loop or sets current_index
\* to the next index the remote returned, also the iteration in which
\* storing the page raises.
CollectProgress == [][CollectProgressStep]_vars


----------------------------------------------------------------------------
(* Properties of the retry loops of the downloader *)

\* the call of get_download_url or fetch_file_list ends in this step
\* without a result
CallFailsStep ==
    /\ pc' \in {"f_loop", "done"}
    /\ attempts' = attempts
    /\ net' = "idle"

\* the call goes on to its next attempt
CallRetriesStep ==
    /\ pc' = "f_retry_sleep"
    /\ attempt' = attempt + 1
    /\ attempts' = attempts
    /\ net' = "idle"

\* C32 as stated: at most 10 attempts per call; HTTP 429/500/502/503/504,
\* an exception, an undecodable body and remote code 1059 are retried while
\* fewer than 10 attempts were made; every other HTTP status and every other
\* remote error code ends the call with a failure.
RetryPolicyAsStated ==
    [][/\ pc' = "f_inflight" /\ pc # "f_inflight"
          => attempts' = attempt + 1 /\ attempts' <= max_retries
       /\ pc = "f_inflight" /\ pc' # "f_inflight"
          => /\ last_outcome' \in {"http_transient", "exception",
                                   "undecodable", "code1059"}
                => IF attempts < max_retries THEN CallRetriesStep
                   ELSE CallFailsStep
             /\ last_outcome' \in {"http_other", "code_other", "code5xx",
                                   "code1030"}
                => CallFailsStep]_vars

\* C32 as the code has it: at most 10 attempts per call; HTTP
\* 429/500/502/503/504, an exception, an undecodable body, the remote error
\* codes 1059, 500, 502, 503 and 504 and, in get_download_url, a success
\* without a download_url are retried while fewer than 10 attempts were
\* made; every other HTTP status and every other remote error code ends the
\* call with a failure after that attempt.
RetryPolicy ==
    [][/\ pc' = "f_inflight" /\ pc # "f_inflight"
          => attempts' = attempt + 1 /\ attempts' <= max_retries
       /\ pc = "f_inflight" /\ pc' # "f_inflight"
          => /\ last_outcome' \in {"http_transient", "exception",
                                   "undecodable", "code1059", "code5xx",
                                   "no_url"}
                => IF attempts < max_retries THEN CallRetriesStep
                   ELSE CallFailsStep
             /\ last_outcome' \in {"http_other", "code_other", "code1030"}
                => CallFailsStep]_vars

\* a file was given up after remote code 500 answered all 10 attempts
RetryPolicyWitness ==
    /\ mode = "download"
    /\ pc = "f_loop"
    /\ attempts = max_retries
    /\ attempt = max_retries - 1
    /\ last_outcome = "code5xx"
    /\ download_status[1] = "failed"
    /\ ~stop_req


----------------------------------------------------------------------------
(* Properties of the task status *)

\* C34: once stop_task has set the status of a task to "cancelled", no later
\* step of the task's background runner changes it: it is never "completed"
\* or "failed" afterwards.
CancelledIsStable ==
    [][task_status = "cancelled" => task_status' = "cancelled"]_vars


----------------------------------------------------------------------------
(* Properties of the retry cursor *)

\* C35: in the page-retry loops of crawl_historical, crawl_all_historical,
\* crawl_incremental and crawl_latest_until_complete a failed attempt made
\* with a non-empty cursor subtracts timestamp_offset_ms from the cursor and
\* a failed attempt made with an empty cursor leaves it empty; the cursor is
\* not touched between the failure and the next attempt, and the retried
\* request carries it (so after k consecutive failures the request uses the
\* cursor minus k offsets).
RetryMovesCursorStep ==
    mode \in {"historical", "all", "incremental", "latest"} =>
        /\ (pc' = "retry" /\ retry_count' = retry_count + 1)
              => end_time' = IF end_time = None THEN None
                             ELSE <<FormatTime(ParseTime(end_time[1])
                                               - timestamp_offset_ms)>>
        /\ (\/ pc = "retry" /\ pc' = "sleep"
            \/ pc = "sleep" /\ pc' \in {"sleep", "prereq"}
            \/ pc = "prereq" /\ pc' = "inflight")
              => end_time' = end_time
        /\ (pc = "prereq" /\ pc' = "inflight" /\ retry_count > 0)
              => req_cursor' = end_time
RetryMovesCursor == [][RetryMovesCursorStep]_vars

\* the second request of a page is in flight after a failure that moved a
\* cursor that was set
RetryMovesCursorWitness ==
    /\ mode \in {"historical", "all", "incremental", "latest"}
    /\ pc = "inflight"
    /\ retry_count = 2
    /\ req_cursor # None
    /\ ~stop_req


----------------------------------------------------------------------------
(* Properties of the bounded mode's budget *)

\* C36: whatever the remote answers, crawl_historical(pages, per_page) makes
\* at most pages * max_retries_per_page calls of fetch_topics_safe, and in
\* every state stats.pages <= completed_pages <= pages.
HistoricalBudget ==
    mode = "historical" =>
        /\ fetch_calls <= pages * max_retries_per_page
        /\ total_stats.pages <= completed_pages
        /\ completed_pages <= pages

\* a run of several pages in which every attempt of every page failed has
\* returned
HistoricalBudgetWitness ==
    /\ mode = "historical"
    /\ pages > 1
    /\ pc = "done"
    /\ fetch_calls = pages * max_retries_per_page
    /\ completed_pages = pages
    /\ ~stop_req


----------------------------------------------------------------------------
(* Properties of the page counters of store_batch_data *)

\* C38: in every call of store_batch_data new_topics + updated_topics + errors
\* is the number of items processed so far: each pass of the loop increments
\* exactly one of the three counters; the sum is the page length when the call
\* returns without a cancellation and at most the page length otherwise; an
\* item whose import did not raise is counted as new exactly when its id was
\* absent from storage right before the import, and as updated otherwise.
StoreAccountingStep ==
    LET ps == page_stats
        id == batch[idx].topic_id
    IN  idx' = idx + 1 =>
            /\ \/ /\ page_stats' = [ps EXCEPT !.new_topics = @ + 1]
                  /\ id \notin db
               \/ /\ page_stats' = [ps EXCEPT !.updated_topics = @ + 1]
                  /\ id \in db
               \/ page_stats' = [ps EXCEPT !.errors = @ + 1]
            /\ page_stats'.errors = ps.errors
                  => (page_stats'.new_topics = ps.new_topics + 1
                        <=> id \notin db)
StoreAccounting ==
    /\ [](LET sum == page_stats.new_topics + page_stats.updated_topics
                     + page_stats.errors
          IN  /\ sum = idx - 1
              /\ sum <= Len(batch)
              /\ (pc # "store" /\ ~stop_req /\ ~stop_flag)
                    => sum = Len(batch))
    /\ [][StoreAccountingStep]_vars

\* a page of two items has been stored without a cancellation: the import
\* of one item raised, the other item was new
StoreAccountingWitness ==
    /\ pc # "store"
    /\ ~stop_req
    /\ Len(batch) = 2
    /\ page_stats.errors = 1
    /\ page_stats.new_topics = 1
    /\ idx = 3


----------------------------------------------------------------------------
(* Properties of the counters of download_files_from_database *)

\* C39: every file of the selected list that download_files_from_database
\* has processed has the status completed, skipped or failed, and each
\* counter is the number of files it set to the matching status, so that
\* downloaded + skipped + failed is the number of processed files and never
\* exceeds total_files; the files not reached keep the status pending.
DownloadAccounting ==
    mode = "download" =>
        LET n == Len(files_to_download)
            With(st) == { k \in 1..n : download_status[k] = st }
        IN  /\ stats.downloaded = Cardinality(With("completed"))
            /\ stats.skipped = Cardinality(With("skipped"))
            /\ stats.failed = Cardinality(With("failed"))
            /\ stats.downloaded + stats.skipped + stats.failed
                  <= stats.total_files
            /\ pc \in {"f_loop", "done"} =>
                  \A k \in 1..n : download_status[k] = "pending"
                                      <=> (file_i = 0 \/ k >= file_i)

=============================================================================
